---- MODULE Spec2Model ----
(***************************************************************************)
(* Cura360: the clinical-stage evaluator of the wounds module              *)
(* (wounds.evaluateStage, wounds.updateStage and helpers) together with    *)
(* treatments.create / treatments.listByWound, which trigger and feed it.  *)
(*                                                                         *)
(* Conventions                                                             *)
(*   - lengths are kept in tenths of a centimetre (0.5 cm = 5), so the     *)
(*     thresholds 1 cm, 5 cm and 8 cm are 10, 50 and 80;                   *)
(*   - instants are minutes; one day is 1440 minutes;                      *)
(*   - a JavaScript null in a numeric column is NullNum, a null in a text  *)
(*     column is Null; the boolean false of infection_signs is "false".    *)
(***************************************************************************)
EXTENDS Integers, Sequences, FiniteSets, TLC

----------------------------------------------------------------------------
(* Values                                                                  *)

Null == "null"

NullNum == -1

DayMinutes == 1440

OneCm == 10

FiveCm == 50

EightCm == 80

Stages ==
  {"valoracion_inicial", "tratamiento_en_curso", "bajo_observacion",
   "evolucion_favorable", "alta_clinica"}

(* JavaScript truthiness of a nullable number: null and 0 are falsy.       *)
TruthyNum(x) == x # NullNum /\ x # 0

(* JavaScript truthiness of infection_signs: null, false and '' are falsy; *)
(* every non-empty string ('si', 'no') is truthy.                          *)
TruthyInfection(x) == x \notin {Null, "false", ""}

----------------------------------------------------------------------------
(* Pure helpers of the wounds module                                       *)

(* Math.round in place of Math.floor.                                       *)
daysSinceCreationRounded(created_at, today) ==
  (today - created_at + (DayMinutes \div 2)) \div DayMinutes

(* Math.floor((today - createdDate) / (1000*60*60*24)); \div floors.       *)
daysSinceCreation(created_at, today) == (today - created_at) \div DayMinutes

showsImprovement(wound, treatments) ==
  IF Len(treatments) < 2 THEN FALSE
  ELSE IF wound.exudate_amount = "escaso" \/ wound.exudate_amount = "moderado" THEN TRUE
  ELSE IF wound.pain_scale # NullNum /\ wound.pain_scale <= 4 THEN TRUE
  ELSE IF TruthyNum(wound.length_cm) /\ TruthyNum(wound.width_cm)
          /\ wound.length_cm < FiveCm /\ wound.width_cm < FiveCm THEN TRUE
  ELSE FALSE

noImprovement(wound, treatments) ==
  IF wound.exudate_amount = "abundante" THEN TRUE
  ELSE IF TruthyNum(wound.pain_scale) /\ wound.pain_scale > 6 THEN TRUE
  ELSE IF TruthyNum(wound.length_cm) /\ TruthyNum(wound.width_cm)
          /\ (wound.length_cm > EightCm \/ wound.width_cm > EightCm) THEN TRUE
  ELSE FALSE

(* Rule 1 with "=== 0" in place of "< 1".                                   *)
Rule1DayZeroOnly(wound, treatments, days) ==
  Len(treatments) = 0 /\ days = 0

Rule1(wound, treatments, days) ==
  Len(treatments) = 0 /\ days < 1

(* Rule 2 without its infection test.                                      *)
Rule2NoInfectionTest(wound, treatments, days) ==
  Len(treatments) >= 1 /\ Len(treatments) <= 3

Rule2(wound, treatments, days) ==
  /\ Len(treatments) >= 1
  /\ Len(treatments) <= 3
  /\ ~TruthyInfection(wound.infection_signs)

(* Rule 3 with its pain threshold one too high.                            *)
Rule3PainAbove8(wound, treatments, days) ==
  \/ wound.infection_signs = "si"
  \/ (TruthyNum(wound.pain_scale) /\ wound.pain_scale > 8)
  \/ (days > 14 /\ Len(treatments) > 5 /\ noImprovement(wound, treatments))

Rule3(wound, treatments, days) ==
  \/ wound.infection_signs = "si"
  \/ (TruthyNum(wound.pain_scale) /\ wound.pain_scale > 7)
  \/ (days > 14 /\ Len(treatments) > 5 /\ noImprovement(wound, treatments))

(* Rule 4 with its count threshold one too high.                            *)
Rule4MoreThanFour(wound, treatments, days) ==
  /\ Len(treatments) > 4
  /\ ~TruthyInfection(wound.infection_signs)
  /\ (wound.pain_scale = NullNum \/ wound.pain_scale <= 5)
  /\ showsImprovement(wound, treatments)

Rule4(wound, treatments, days) ==
  /\ Len(treatments) > 3
  /\ ~TruthyInfection(wound.infection_signs)
  /\ (wound.pain_scale = NullNum \/ wound.pain_scale <= 5)
  /\ showsImprovement(wound, treatments)

Rule5(wound, treatments, days) ==
  /\ TruthyNum(wound.length_cm) /\ TruthyNum(wound.width_cm)
  /\ wound.length_cm < OneCm /\ wound.width_cm < OneCm
  /\ wound.exudate_amount = "escaso"
  /\ (~TruthyNum(wound.pain_scale) \/ wound.pain_scale <= 2)
  /\ wound.infection_signs # "si"

(* The cascade with the tests of rules 3 and 4 in the other order.          *)
newStageOfRule4First(wound, treatments, today) ==
  LET days == daysSinceCreation(wound.created_at, today) IN
  IF Rule1(wound, treatments, days) THEN "valoracion_inicial"
  ELSE IF Rule2(wound, treatments, days) THEN "tratamiento_en_curso"
  ELSE IF Rule4(wound, treatments, days) THEN "evolucion_favorable"
  ELSE IF Rule3(wound, treatments, days) THEN "bajo_observacion"
  ELSE IF Rule5(wound, treatments, days) THEN "alta_clinica"
  ELSE wound.clinical_stage

(* The if / else-if cascade of evaluateStage: the stage it decides from a   *)
(* wound snapshot, the treatment list it read and the instant "today".      *)
newStageOf(wound, treatments, today) ==
  LET days == daysSinceCreation(wound.created_at, today) IN
  IF Rule1(wound, treatments, days) THEN "valoracion_inicial"
  ELSE IF Rule2(wound, treatments, days) THEN "tratamiento_en_curso"
  ELSE IF Rule3(wound, treatments, days) THEN "bajo_observacion"
  ELSE IF Rule4(wound, treatments, days) THEN "evolucion_favorable"
  ELSE IF Rule5(wound, treatments, days) THEN "alta_clinica"
  ELSE wound.clinical_stage

----------------------------------------------------------------------------
(* treatments module                                                        *)

(* treatments.listByWound on success: the wound's rows, most recent first.  *)
(* Rows are appended in chronological order, so the reverse of the table's  *)
(* order is created_at DESC.                                                *)
RECURSIVE Reverse(_)
Reverse(s) == IF s = << >> THEN << >> ELSE Append(Reverse(Tail(s)), Head(s))

(* The listing without the row inserted last.                               *)
listByWoundWithoutLatest(table, woundId) ==
  LET rows == Reverse(SelectSeq(table, LAMBDA t : t.wound_id = woundId)) IN
  IF rows = << >> THEN rows ELSE Tail(rows)

listByWound(table, woundId) ==
  Reverse(SelectSeq(table, LAMBDA t : t.wound_id = woundId))

(* What listByWound hands back when the query fails.                        *)
listOnError == << >>

(* What treatments.create hands back once the insert has succeeded and the  *)
(* awaited evaluateStage has completed with stageResult.                    *)
createResultOrNull(treatment, stageResult) ==
  IF stageResult = Null THEN [id |-> 0, wound_id |-> "none"] ELSE treatment

createResult(treatment, stageResult) == treatment

----------------------------------------------------------------------------
(* Bounds and input sets                                                    *)

MaxTreatments == 4

MaxDays == 1

MaxCount == 6

Procs == {"A", "B"}

Callers == {"A"}

WoundIds == {"w1"}

Techniques == {"", "limpieza"}

(* Clinical data a wound form can submit.                                   *)
ClinicalData ==
  { [infection_signs |-> "false", pain_scale |-> 3, exudate_amount |-> "escaso",
     length_cm |-> 5, width_cm |-> 5],
    [infection_signs |-> "si", pain_scale |-> 8, exudate_amount |-> "abundante",
     length_cm |-> 90, width_cm |-> 90],
    [infection_signs |-> Null, pain_scale |-> NullNum, exudate_amount |-> Null,
     length_cm |-> NullNum, width_cm |-> NullNum],
    [infection_signs |-> "no", pain_scale |-> NullNum, exudate_amount |-> "escaso",
     length_cm |-> 5, width_cm |-> 5] }

(* What a caller can hand to updateStage as newStage: a stage, or any other *)
(* text.                                                                    *)
StageInputs == Stages \cup {"cerrada"}

(* A column that the updates object of wounds.update does not name.         *)
Unset == "unset"

(* The clinical_stage entry of the updates object of wounds.update: absent, *)
(* or a stage.                                                              *)
UpdateStages == {Unset, "alta_clinica"}

InfectionValues == {Null, "false", "", "si", "no"}

PainValues == {NullNum, 0, 2, 3, 4, 5, 6, 7, 8}

ExudateValues == {Null, "escaso", "moderado", "abundante"}

SizeValues == {NullNum, 0, 5, 10, 50, 80, 90}

(* Instants of evaluation, in minutes after the wound's created_at: an hour *)
(* before it, 23 h 59 min, 24 h, 14 days and 15 days after it.              *)
EvalInstants == {-60, 1439, 1440, 20160, 21600}

mkWound(created, stage, d) ==
  [created_at |-> created, clinical_stage |-> stage,
   infection_signs |-> d.infection_signs, pain_scale |-> d.pain_scale,
   exudate_amount |-> d.exudate_amount,
   length_cm |-> d.length_cm, width_cm |-> d.width_cm]

NoWound == mkWound(0, "none", [infection_signs |-> Null, pain_scale |-> NullNum,
                               exudate_amount |-> Null, length_cm |-> NullNum,
                               width_cm |-> NullNum])

(* A treatments row, by its key and the wound it belongs to.                *)
mkTreatment(id, woundId) == [id |-> id, wound_id |-> woundId]

NoTreatment == mkTreatment(0, "none")

RECURSIVE mkTable(_)
mkTable(n) == IF n = 0 THEN << >> ELSE Append(mkTable(n - 1), mkTreatment(n, "w1"))

(* Row-level security: users, ids and rows of the four tables.              *)
Users == {"u1", "u2"}

Roles == {"professional", "patient"}

(* patients.id is set by whoever inserts the row; it can be a user's id.    *)
PatientIds == {"u1", "x1"}

RlsWoundIds == {"rw1"}

RlsTreatmentIds == {"rt1"}

PatientNames == {"n1", "n2"}

WoundTypes == {"ulcera", "quemadura"}

NoPatient == [professional_id |-> "none", name |-> "none"]

NoRlsWound == [patient_id |-> "none", type |-> "none"]

NoRlsTreatment == [wound_id |-> "none"]

NoRequest == [user |-> "none", role |-> "none", op |-> "none", table |-> "none",
              row |-> "none", ok |-> FALSE]

NoFirst == [valid |-> FALSE, stage |-> "none", ok |-> FALSE, writes |-> 0]

----------------------------------------------------------------------------
(* State                                                                    *)

VARIABLES
  wounds,        \* table wounds: id -> row, for the ids that exist
  treatments,    \* table treatments, in insertion order
  now,           \* the clock, in minutes
  stageBy,       \* per stored wound: the operation that last changed its
                 \*                   clinical_stage
  pc,            \* per caller: where its running call stands
  op,            \* per caller: "create" (treatments.create) or "evaluate"
  arg,           \* per caller: the woundId of its call
  snap,          \* per caller: the wound row evaluateStage read
  tlist,         \* per caller: the treatment list evaluateStage got
  newStage,      \* per caller: the stage evaluateStage decided
  ret,           \* per caller: what evaluateStage returned
  ins,           \* per caller: the row treatments.create inserted
  cret,          \* per caller: what treatments.create returned
  writes,        \* per caller: stage updates the evaluateStage call issued
  listOk,        \* per caller: the treatment listing did not fail
  writeOk,       \* per caller: the stage update did not fail
  overrode,      \* per caller: its stage update replaced a stage that
                 \*             updateStage stored after the call read the wound
  clean,         \* per caller: nothing else touched the data since the call began
  first,         \* per caller: how the call just before ended, when this one
                 \*             follows it at once and nothing came in between
  ewound, etreatments, etoday, eresult,  \* one evaluation on drawn inputs
  profiles,      \* table profiles: user id -> role
  patients,      \* table patients: id -> row, for the ids that exist
  rlsWounds,     \* table wounds as the policies see it: id -> row
  rlsTreatments, \* table treatments as the policies see it: id -> row
  request        \* the last request a user sent and how the policies answered

dbvars == <<wounds, treatments, now, stageBy>>

callvars == <<pc, op, arg, snap, tlist, newStage, ret, ins, cret, writes,
              listOk, writeOk, overrode, clean, first>>

evars == <<ewound, etreatments, etoday, eresult>>

rlsvars == <<profiles, patients, rlsWounds, rlsTreatments, request>>

vars == <<wounds, treatments, now, stageBy, pc, op, arg, snap, tlist, newStage, ret, ins,
          cret, writes, listOk, writeOk, overrode, clean, first,
          ewound, etreatments, etoday, eresult,
          profiles, patients, rlsWounds, rlsTreatments, request>>

InitCalls ==
  /\ pc = [p \in Procs |-> "idle"]
  /\ op = [p \in Procs |-> "none"]
  /\ arg = [p \in Procs |-> "w1"]
  /\ snap = [p \in Procs |-> NoWound]
  /\ tlist = [p \in Procs |-> << >>]
  /\ newStage = [p \in Procs |-> "none"]
  /\ ret = [p \in Procs |-> "none"]
  /\ ins = [p \in Procs |-> NoTreatment]
  /\ cret = [p \in Procs |-> NoTreatment]
  /\ writes = [p \in Procs |-> 0]
  /\ listOk = [p \in Procs |-> TRUE]
  /\ writeOk = [p \in Procs |-> TRUE]
  /\ overrode = [p \in Procs |-> FALSE]
  /\ clean = [p \in Procs |-> FALSE]
  /\ first = [p \in Procs |-> NoFirst]

InitDb ==
  /\ wounds = [w \in {} |-> NoWound]
  /\ treatments = << >>
  /\ now = 0
  /\ stageBy = [w \in {} |-> "none"]

InitE ==
  /\ ewound = NoWound
  /\ etreatments = << >>
  /\ etoday = 0
  /\ eresult = "none"

(* Every user has signed up: the trigger on auth.users gave each a profile  *)
(* with role 'patient'. The other tables are empty.                         *)
InitRls ==
  /\ profiles = [u \in Users |-> "patient"]
  /\ patients = [x \in {} |-> NoPatient]
  /\ rlsWounds = [x \in {} |-> NoRlsWound]
  /\ rlsTreatments = [x \in {} |-> NoRlsTreatment]
  /\ request = NoRequest

Init == InitDb /\ InitCalls /\ InitE /\ InitRls

----------------------------------------------------------------------------
(* Operations on the tables that are not part of a caller's running call    *)

(* The callers in Q have had the data under their call changed by another.  *)
Disturb(Q) ==
  /\ clean' = [p \in Procs |-> IF p \in Q THEN FALSE ELSE clean[p]]
  /\ first' = [p \in Procs |-> IF p \in Q THEN NoFirst ELSE first[p]]

(* wounds.create: the row is inserted with clinical_stage forced to         *)
(* 'valoracion_inicial'; created_at defaults to the insert's instant.       *)
WoundsCreate(w, d) ==
  /\ w \notin DOMAIN wounds
  /\ wounds' = [x \in DOMAIN wounds \cup {w} |->
                  IF x = w THEN mkWound(now, "valoracion_inicial", d) ELSE wounds[x]]
  /\ stageBy' = [x \in DOMAIN wounds \cup {w} |->
                   IF x = w THEN "create" ELSE stageBy[x]]
  /\ Disturb(Procs)
  /\ UNCHANGED <<treatments, now, pc, op, arg, snap, tlist, newStage, ret, ins,
                 cret, writes, listOk, writeOk, overrode>>
  /\ UNCHANGED <<evars, rlsvars>>

(* wounds.update(w, updates): the columns named in updates are stored as    *)
(* given. updates carries the clinical data d and, unless s is Unset, a     *)
(* clinical_stage s.                                                        *)
WoundsUpdate(w, d, s) ==
  /\ w \in DOMAIN wounds
  /\ LET stage == IF s = Unset THEN wounds[w].clinical_stage ELSE s
         row == mkWound(wounds[w].created_at, stage, d) IN
       /\ wounds[w] # row
       /\ wounds' = [wounds EXCEPT ![w] = row]
       /\ stageBy' = IF stage # wounds[w].clinical_stage
                       THEN [stageBy EXCEPT ![w] = "update"] ELSE stageBy
  /\ Disturb(Procs)
  /\ UNCHANGED <<treatments, now, pc, op, arg, snap, tlist, newStage, ret, ins,
                 cret, writes, listOk, writeOk, overrode>>
  /\ UNCHANGED <<evars, rlsvars>>

(* An update whose filter matches no row.                                   *)
setStageNoRow(table, woundId, stage) == table

(* An update without its filter.                                            *)
setStageAllRows(table, woundId, stage) ==
  [w \in DOMAIN table |-> [table[w] EXCEPT !.clinical_stage = stage]]

(* The row update of updateStage: UPDATE wounds SET clinical_stage = stage  *)
(* WHERE id = woundId. No row matches a missing id, and that is no error.   *)
setStage(table, woundId, stage) ==
  IF woundId \in DOMAIN table
    THEN [table EXCEPT ![woundId].clinical_stage = stage]
    ELSE table

(* wounds.updateStage called directly: the manual override.                 *)
ManualUpdateStage(w, s) ==
  /\ w \in DOMAIN wounds
  /\ wounds[w].clinical_stage # s
  /\ wounds' = setStage(wounds, w, s)
  /\ stageBy' = [stageBy EXCEPT ![w] = "updateStage"]
  /\ Disturb(Procs)
  /\ UNCHANGED <<treatments, now, pc, op, arg, snap, tlist, newStage, ret, ins,
                 cret, writes, listOk, writeOk, overrode>>
  /\ UNCHANGED <<evars, rlsvars>>

(* A day passes.                                                            *)
Tick ==
  /\ now < MaxDays * DayMinutes
  /\ now' = now + DayMinutes
  /\ Disturb(Procs)
  /\ UNCHANGED <<wounds, stageBy, treatments, pc, op, arg, snap, tlist, newStage, ret, ins,
                 cret, writes, listOk, writeOk, overrode>>
  /\ UNCHANGED <<evars, rlsvars>>

----------------------------------------------------------------------------
(* treatments.create and wounds.evaluateStage, one step per request sent    *)
(* to the backend; what a call does between two requests belongs to the     *)
(* step of the earlier one.                                                 *)

stageChangedAlways(stage, wound) == TRUE

(* "if (newStage !== wound.clinical_stage)": the call writes.               *)
stageChanged(stage, wound) == stage # wound.clinical_stage

stageResultNullOnFailure(stage, ok) == IF ok THEN stage ELSE Null

(* What evaluateStage returns after the stage update, which answered ok     *)
(* (true) or not (false): updateStage swallows the error.                   *)
stageResult(stage, ok) == stage

(* The update made conditional on the row still holding the stage read.     *)
writeStageIfUnchanged(table, woundId, stage, wound) ==
  IF woundId \in DOMAIN table /\ table[woundId].clinical_stage = wound.clinical_stage
    THEN setStage(table, woundId, stage)
    ELSE table

(* The update withheld when updateStage has stored another stage since the  *)
(* call read the wound.                                                     *)
writeStageUnlessOverridden(table, woundId, stage, wound) ==
  IF /\ woundId \in DOMAIN table
     /\ stageBy[woundId] = "updateStage"
     /\ table[woundId].clinical_stage # wound.clinical_stage
    THEN table
    ELSE setStage(table, woundId, stage)

(* "await this.updateStage(woundId, newStage)": the update is sent whatever  *)
(* the row holds by now; wound is the snapshot the call decided from.       *)
writeStage(table, woundId, stage, wound) == setStage(table, woundId, stage)

(* The stage that a stage update of a call is about to replace was put     *)
(* there by updateStage after the call read the snapshot wound.             *)
overridden(table, by, woundId, wound) ==
  /\ woundId \in DOMAIN table
  /\ by[woundId] = "updateStage"
  /\ table[woundId].clinical_stage # wound.clinical_stage

(* A call of p begins: its locals are fresh.                                *)
Begin(p, kind, w, at) ==
  /\ pc' = [pc EXCEPT ![p] = at]
  /\ op' = [op EXCEPT ![p] = kind]
  /\ arg' = [arg EXCEPT ![p] = w]
  /\ snap' = [snap EXCEPT ![p] = NoWound]
  /\ tlist' = [tlist EXCEPT ![p] = << >>]
  /\ newStage' = [newStage EXCEPT ![p] = "none"]
  /\ ret' = [ret EXCEPT ![p] = IF at = "idle" THEN "none" ELSE "pending"]
  /\ cret' = [cret EXCEPT ![p] = NoTreatment]
  /\ writes' = [writes EXCEPT ![p] = 0]
  /\ listOk' = [listOk EXCEPT ![p] = TRUE]
  /\ writeOk' = [writeOk EXCEPT ![p] = TRUE]
  /\ overrode' = [overrode EXCEPT ![p] = FALSE]

(* The call of p ends with evaluateStage returning r; treatments.create,    *)
(* when it is the caller, returns right after.                              *)
Return(p, r) ==
  /\ pc' = [pc EXCEPT ![p] = "idle"]
  /\ ret' = [ret EXCEPT ![p] = r]
  /\ cret' = [cret EXCEPT ![p] = IF op[p] = "create" THEN createResult(ins[p], r) ELSE @]

afterInsertAlwaysEvaluate(ok) == "ev_get"

(* Where treatments.create goes after its insert: "if (error) throw error"  *)
(* leads to the catch and the return of null, otherwise the call awaits     *)
(* evaluateStage, whose first request is getById.                           *)
afterInsert(ok) == IF ok THEN "ev_get" ELSE "idle"

(* treatments.create without a technique: it throws before the insert and   *)
(* returns null.                                                            *)
CreateInvalid(p, w, tech) ==
  /\ pc[p] = "idle"
  /\ tech = ""
  /\ Begin(p, "create", w, "idle")
  /\ ins' = [ins EXCEPT ![p] = NoTreatment]
  /\ Disturb({p})
  /\ UNCHANGED <<wounds, stageBy, treatments, now>>
  /\ UNCHANGED <<evars, rlsvars>>

(* treatments.create whose insert fails (no such wound, or the request     *)
(* errs): it returns null and evaluateStage is not called.                  *)
CreateInsertFail(p, w, tech) ==
  /\ pc[p] = "idle"
  /\ tech # ""
  /\ Begin(p, "create", w, afterInsert(FALSE))
  /\ ins' = [ins EXCEPT ![p] = NoTreatment]
  /\ Disturb({p})
  /\ UNCHANGED <<wounds, stageBy, treatments, now>>
  /\ UNCHANGED <<evars, rlsvars>>

(* treatments.create whose insert succeeds: the row is stored and the call  *)
(* goes on to evaluateStage(woundId).                                       *)
CreateInsertOk(p, w, tech) ==
  /\ pc[p] = "idle"
  /\ tech # ""
  /\ w \in DOMAIN wounds
  /\ Len(treatments) < MaxTreatments
  /\ LET t == mkTreatment(Len(treatments) + 1, w) IN
       /\ treatments' = Append(treatments, t)
       /\ ins' = [ins EXCEPT ![p] = t]
  /\ Begin(p, "create", w, afterInsert(TRUE))
  /\ clean' = [q \in Procs |-> q = p]
  /\ first' = [q \in Procs |-> NoFirst]
  /\ UNCHANGED <<wounds, stageBy, now>>
  /\ UNCHANGED <<evars, rlsvars>>

(* wounds.evaluateStage(w) called on its own. When the caller's last call   *)
(* was an evaluateStage of the same wound and nothing touched the data      *)
(* since that call began, first remembers how it ended.                     *)
EvaluateCall(p, w) ==
  /\ pc[p] = "idle"
  /\ Begin(p, "evaluate", w, "ev_get")
  /\ ins' = [ins EXCEPT ![p] = NoTreatment]
  /\ first' = [first EXCEPT ![p] =
                 IF clean[p] /\ arg[p] = w /\ ret[p] \notin {"none", "pending"}
                   THEN [valid |-> TRUE, stage |-> ret[p],
                         ok |-> ret[p] # Null /\ listOk[p] /\ writeOk[p],
                         writes |-> writes[p]]
                   ELSE NoFirst]
  /\ clean' = [clean EXCEPT ![p] = TRUE]
  /\ UNCHANGED <<wounds, stageBy, treatments, now>>
  /\ UNCHANGED <<evars, rlsvars>>

(* getById answers with the row.                                            *)
EvGetOk(p) ==
  /\ pc[p] = "ev_get"
  /\ arg[p] \in DOMAIN wounds
  /\ snap' = [snap EXCEPT ![p] = wounds[arg[p]]]
  /\ pc' = [pc EXCEPT ![p] = "ev_list"]
  /\ UNCHANGED <<wounds, stageBy, treatments, now, op, arg, tlist, newStage, ret, ins, cret,
                 writes, listOk, writeOk, overrode, clean, first>>
  /\ UNCHANGED <<evars, rlsvars>>

noWoundResultDefault == "valoracion_inicial"

(* "if (!wound) return null": what evaluateStage returns without a wound.   *)
noWoundResult == Null

(* getById finds no row or fails: it returns null and so does the call.     *)
EvGetFail(p) ==
  /\ pc[p] = "ev_get"
  /\ Return(p, noWoundResult)
  /\ UNCHANGED <<wounds, stageBy, treatments, now, op, arg, snap, tlist, newStage, ins,
                 writes, listOk, writeOk, overrode, clean, first>>
  /\ UNCHANGED <<evars, rlsvars>>

(* With the treatment list in hand the call computes the stage at the       *)
(* instant "now", then returns it or goes on to write it.                   *)
Decide(p, list) ==
  LET stage == newStageOf(snap[p], list, now) IN
  /\ tlist' = [tlist EXCEPT ![p] = list]
  /\ newStage' = [newStage EXCEPT ![p] = stage]
  /\ IF stageChanged(stage, snap[p])
       THEN /\ pc' = [pc EXCEPT ![p] = "ev_write"]
            /\ UNCHANGED <<ret, cret>>
       ELSE Return(p, stage)

EvListOk(p) ==
  /\ pc[p] = "ev_list"
  /\ Decide(p, listByWound(treatments, arg[p]))
  /\ UNCHANGED <<wounds, stageBy, treatments, now, op, arg, snap, ins, writes, listOk,
                 writeOk, overrode, clean, first>>
  /\ UNCHANGED <<evars, rlsvars>>

(* The listing fails; listByWound swallows the error.                       *)
EvListFail(p) ==
  /\ pc[p] = "ev_list"
  /\ listOk' = [listOk EXCEPT ![p] = FALSE]
  /\ Decide(p, listOnError)
  /\ UNCHANGED <<wounds, stageBy, treatments, now, op, arg, snap, ins, writes,
                 writeOk, overrode, clean, first>>
  /\ UNCHANGED <<evars, rlsvars>>

(* The stage update goes through.                                           *)
EvWriteOk(p) ==
  /\ pc[p] = "ev_write"
  /\ wounds' = writeStage(wounds, arg[p], newStage[p], snap[p])
  /\ writes' = [writes EXCEPT ![p] = @ + 1]
  /\ Return(p, stageResult(newStage[p], TRUE))
  /\ stageBy' = IF wounds' # wounds THEN [stageBy EXCEPT ![arg[p]] = "evaluateStage"]
                                     ELSE stageBy
  /\ IF wounds' # wounds THEN Disturb(Procs \ {p}) ELSE UNCHANGED <<clean, first>>
  /\ overrode' = [overrode EXCEPT ![p] = overridden(wounds, stageBy, arg[p], snap[p])]
  /\ UNCHANGED <<treatments, now, op, arg, snap, tlist, newStage, ins, listOk,
                 writeOk>>
  /\ UNCHANGED <<evars, rlsvars>>

(* The stage update fails: updateStage returns false, nothing is stored.    *)
EvWriteFail(p) ==
  /\ pc[p] = "ev_write"
  /\ writes' = [writes EXCEPT ![p] = @ + 1]
  /\ writeOk' = [writeOk EXCEPT ![p] = FALSE]
  /\ Return(p, stageResult(newStage[p], FALSE))
  /\ UNCHANGED <<wounds, stageBy, treatments, now, op, arg, snap, tlist, newStage, ins,
                 listOk, overrode, clean, first>>
  /\ UNCHANGED <<evars, rlsvars>>

(* One caller at work while wounds are registered, edited and overridden    *)
(* and time passes.                                                         *)
Next ==
  \/ \E w \in WoundIds, d \in ClinicalData : WoundsCreate(w, d)
  \/ \E w \in WoundIds, d \in ClinicalData, s \in UpdateStages :
       WoundsUpdate(w, d, s)
  \/ \E w \in WoundIds, s \in StageInputs : ManualUpdateStage(w, s)
  \/ Tick
  \/ \E p \in Callers, w \in WoundIds, tech \in Techniques : CreateInvalid(p, w, tech)
  \/ \E p \in Callers, w \in WoundIds, tech \in Techniques : CreateInsertFail(p, w, tech)
  \/ \E p \in Callers, w \in WoundIds, tech \in Techniques : CreateInsertOk(p, w, tech)
  \/ \E p \in Callers, w \in WoundIds : EvaluateCall(p, w)
  \/ \E p \in Callers : EvGetOk(p)
  \/ \E p \in Callers : EvGetFail(p)
  \/ \E p \in Callers : EvListOk(p)
  \/ \E p \in Callers : EvListFail(p)
  \/ \E p \in Callers : EvWriteOk(p)
  \/ \E p \in Callers : EvWriteFail(p)

Spec == Init /\ [][Next]_vars

----------------------------------------------------------------------------
(* Two treatments.create calls for one wound, each run once, from a wound   *)
(* that already has some treatments and any stored stage.                   *)

(* How a stored wound can have come by its stage before a run begins.       *)
stageOrigin(stage) == IF stage = "valoracion_inicial" THEN "create" ELSE "updateStage"

InitRace ==
  /\ \E s \in Stages, d \in ClinicalData :
       wounds = [w \in {"w1"} |-> mkWound(0, s, d)]
  /\ \E n \in 0..(MaxTreatments - 2) : treatments = mkTable(n)
  /\ now = 0
  /\ stageBy = [w \in {"w1"} |-> stageOrigin(wounds[w].clinical_stage)]
  /\ InitCalls
  /\ InitE
  /\ InitRls

RaceCreate(p) ==
  /\ op[p] = "none"
  /\ CreateInsertOk(p, "w1", "limpieza")

NextRace ==
  \/ \E p \in Procs : RaceCreate(p)
  \/ \E p \in Procs : EvGetOk(p)
  \/ \E p \in Procs : EvListOk(p)
  \/ \E p \in Procs : EvWriteOk(p)

SpecRace == InitRace /\ [][NextRace]_vars

----------------------------------------------------------------------------
(* evaluateStage called again and again, with every outcome of its          *)
(* requests, on one of two stored wounds that both have treatments.         *)

FrameWoundIds == {"w1", "w2"}

MaxOther == 2

(* n treatments of wound w1 followed by m treatments of wound w2.           *)
RECURSIVE mkMixed(_, _)
mkMixed(n, m) ==
  IF m = 0 THEN mkTable(n)
           ELSE Append(mkMixed(n, m - 1), mkTreatment(n + m, "w2"))

InitFrame ==
  /\ \E s1 \in Stages, s2 \in Stages, d1 \in ClinicalData, d2 \in ClinicalData :
       wounds = [w \in FrameWoundIds |->
                   IF w = "w1" THEN mkWound(0, s1, d1) ELSE mkWound(0, s2, d2)]
  /\ \E n \in 0..MaxTreatments, m \in 0..MaxOther : treatments = mkMixed(n, m)
  /\ now = 0
  /\ stageBy = [w \in FrameWoundIds |-> stageOrigin(wounds[w].clinical_stage)]
  /\ InitCalls
  /\ InitE
  /\ InitRls

NextFrame ==
  \/ \E p \in Callers, w \in FrameWoundIds : EvaluateCall(p, w)
  \/ \E p \in Callers : EvGetOk(p)
  \/ \E p \in Callers : EvGetFail(p)
  \/ \E p \in Callers : EvListOk(p)
  \/ \E p \in Callers : EvListFail(p)
  \/ \E p \in Callers : EvWriteOk(p)
  \/ \E p \in Callers : EvWriteFail(p)

SpecFrame == InitFrame /\ [][NextFrame]_vars

----------------------------------------------------------------------------
(* One evaluation on inputs drawn from the value sets: the stage            *)
(* evaluateStage decides for a wound row, a treatment list and an instant.  *)

InitEval ==
  /\ InitDb
  /\ InitCalls
  /\ ewound \in { mkWound(0, s, [infection_signs |-> i, pain_scale |-> pn,
                                 exudate_amount |-> x, length_cm |-> l, width_cm |-> wd]) :
                    s \in Stages, i \in InfectionValues, pn \in PainValues,
                    x \in ExudateValues, l \in SizeValues, wd \in SizeValues }
  /\ etreatments \in { mkTable(n) : n \in 0..MaxCount }
  /\ etoday \in EvalInstants
  /\ eresult = "none"
  /\ InitRls

EvalApply ==
  /\ eresult = "none"
  /\ eresult' = newStageOf(ewound, etreatments, etoday)
  /\ UNCHANGED <<ewound, etreatments, etoday>>
  /\ UNCHANGED dbvars
  /\ UNCHANGED callvars
  /\ UNCHANGED rlsvars

NextEval == EvalApply

SpecEval == InitEval /\ [][NextEval]_vars

----------------------------------------------------------------------------
(* Row-level security of schema.sql. uid is auth.uid(), the id of the user  *)
(* who sends the request. A policy names no role: it applies to every       *)
(* authenticated user, and the policies of one command are OR-ed. A command *)
(* without a policy on a table is refused.                                  *)

profiles_update_own(uid, id) == id = uid

patients_select_by_professional(uid, row) == row.professional_id = uid

patients_select_own(uid, id) == id = uid

patients_insert_by_professional(uid, row) == row.professional_id = uid

patients_update_by_professional(uid, row) == row.professional_id = uid

(* SELECT id FROM patients WHERE professional_id = auth.uid()               *)
patientsOf(uid) == {x \in DOMAIN patients : patients[x].professional_id = uid}

(* SELECT w.id FROM wounds w JOIN patients p ON w.patient_id = p.id         *)
(* WHERE p.professional_id = auth.uid()                                     *)
woundsOf(uid) == {x \in DOMAIN rlsWounds : rlsWounds[x].patient_id \in patientsOf(uid)}

wounds_select_by_professional(uid, row) == row.patient_id \in patientsOf(uid)

wounds_select_own(uid, row) == row.patient_id = uid

wounds_insert_by_professional(uid, row) == row.patient_id \in patientsOf(uid)

wounds_update_by_professional(uid, row) == row.patient_id \in patientsOf(uid)

treatments_select_by_professional(uid, row) == row.wound_id \in woundsOf(uid)

treatments_select_own(uid, row) ==
  row.wound_id \in {x \in DOMAIN rlsWounds : rlsWounds[x].patient_id = uid}

treatments_insert_by_professional(uid, row) == row.wound_id \in woundsOf(uid)

(* The request of user u, with the role its profile holds when it is sent.  *)
mkRequest(u, o, t, r, answer) ==
  [user |-> u, role |-> profiles[u], op |-> o, table |-> t, row |-> r, ok |-> answer]

(* The role is set from outside the policies (SQL editor, service key).     *)
AdminSetRole(u, r) ==
  /\ profiles[u] # r
  /\ profiles' = [profiles EXCEPT ![u] = r]
  /\ request' = [user |-> "admin", role |-> "service", op |-> "update",
                 table |-> "profiles", row |-> u, ok |-> TRUE]
  /\ UNCHANGED <<patients, rlsWounds, rlsTreatments>>
  /\ UNCHANGED <<dbvars, callvars, evars>>

(* UPDATE profiles SET role = r WHERE id = id, sent by u.                   *)
RlsProfilesUpdate(u, id, r) ==
  LET allowed == profiles_update_own(u, id) IN
  /\ profiles' = IF allowed THEN [profiles EXCEPT ![id] = r] ELSE profiles
  /\ request' = mkRequest(u, "update", "profiles", id, allowed)
  /\ UNCHANGED <<patients, rlsWounds, rlsTreatments>>
  /\ UNCHANGED <<dbvars, callvars, evars>>

(* INSERT INTO patients, sent by u; the foreign key wants a profile.        *)
RlsPatientsInsert(u, id, prof, name) ==
  LET row == [professional_id |-> prof, name |-> name]
      allowed == prof \in DOMAIN profiles /\ patients_insert_by_professional(u, row) IN
  /\ id \notin DOMAIN patients
  /\ patients' = IF allowed
                    THEN [x \in DOMAIN patients \cup {id} |->
                            IF x = id THEN row ELSE patients[x]]
                    ELSE patients
  /\ request' = mkRequest(u, "insert", "patients", id, allowed)
  /\ UNCHANGED <<profiles, rlsWounds, rlsTreatments>>
  /\ UNCHANGED <<dbvars, callvars, evars>>

(* UPDATE patients ... WHERE id = id, sent by u: the policy's USING test    *)
(* applies to the stored row and, there being no WITH CHECK, to the new one. *)
RlsPatientsUpdate(u, id, prof, name) ==
  LET row == [professional_id |-> prof, name |-> name]
      allowed == /\ patients_update_by_professional(u, patients[id])
                 /\ patients_update_by_professional(u, row) IN
  /\ id \in DOMAIN patients
  /\ patients' = IF allowed THEN [patients EXCEPT ![id] = row] ELSE patients
  /\ request' = mkRequest(u, "update", "patients", id, allowed)
  /\ UNCHANGED <<profiles, rlsWounds, rlsTreatments>>
  /\ UNCHANGED <<dbvars, callvars, evars>>

(* SELECT * FROM patients WHERE id = id, sent by u.                         *)
RlsPatientsSelect(u, id) ==
  /\ id \in DOMAIN patients
  /\ request' = mkRequest(u, "select", "patients", id,
                          \/ patients_select_by_professional(u, patients[id])
                          \/ patients_select_own(u, id))
  /\ UNCHANGED <<profiles, patients, rlsWounds, rlsTreatments>>
  /\ UNCHANGED <<dbvars, callvars, evars>>

RlsWoundsInsert(u, id, pid, type) ==
  LET row == [patient_id |-> pid, type |-> type]
      allowed == pid \in DOMAIN patients /\ wounds_insert_by_professional(u, row) IN
  /\ id \notin DOMAIN rlsWounds
  /\ rlsWounds' = IF allowed
                     THEN [x \in DOMAIN rlsWounds \cup {id} |->
                             IF x = id THEN row ELSE rlsWounds[x]]
                     ELSE rlsWounds
  /\ request' = mkRequest(u, "insert", "wounds", id, allowed)
  /\ UNCHANGED <<profiles, patients, rlsTreatments>>
  /\ UNCHANGED <<dbvars, callvars, evars>>

RlsWoundsUpdate(u, id, pid, type) ==
  LET row == [patient_id |-> pid, type |-> type]
      allowed == /\ pid \in DOMAIN patients
                 /\ wounds_update_by_professional(u, rlsWounds[id])
                 /\ wounds_update_by_professional(u, row) IN
  /\ id \in DOMAIN rlsWounds
  /\ rlsWounds' = IF allowed THEN [rlsWounds EXCEPT ![id] = row] ELSE rlsWounds
  /\ request' = mkRequest(u, "update", "wounds", id, allowed)
  /\ UNCHANGED <<profiles, patients, rlsTreatments>>
  /\ UNCHANGED <<dbvars, callvars, evars>>

RlsWoundsSelect(u, id) ==
  /\ id \in DOMAIN rlsWounds
  /\ request' = mkRequest(u, "select", "wounds", id,
                          \/ wounds_select_by_professional(u, rlsWounds[id])
                          \/ wounds_select_own(u, rlsWounds[id]))
  /\ UNCHANGED <<profiles, patients, rlsWounds, rlsTreatments>>
  /\ UNCHANGED <<dbvars, callvars, evars>>

RlsTreatmentsInsert(u, id, wid) ==
  LET row == [wound_id |-> wid]
      allowed == wid \in DOMAIN rlsWounds /\ treatments_insert_by_professional(u, row) IN
  /\ id \notin DOMAIN rlsTreatments
  /\ rlsTreatments' = IF allowed
                         THEN [x \in DOMAIN rlsTreatments \cup {id} |->
                                 IF x = id THEN row ELSE rlsTreatments[x]]
                         ELSE rlsTreatments
  /\ request' = mkRequest(u, "insert", "treatments", id, allowed)
  /\ UNCHANGED <<profiles, patients, rlsWounds>>
  /\ UNCHANGED <<dbvars, callvars, evars>>

(* treatments has no UPDATE policy: the request changes no row.             *)
RlsTreatmentsUpdate(u, id) ==
  /\ id \in DOMAIN rlsTreatments
  /\ request' = mkRequest(u, "update", "treatments", id, FALSE)
  /\ UNCHANGED <<profiles, patients, rlsWounds, rlsTreatments>>
  /\ UNCHANGED <<dbvars, callvars, evars>>

RlsTreatmentsSelect(u, id) ==
  /\ id \in DOMAIN rlsTreatments
  /\ request' = mkRequest(u, "select", "treatments", id,
                          \/ treatments_select_by_professional(u, rlsTreatments[id])
                          \/ treatments_select_own(u, rlsTreatments[id]))
  /\ UNCHANGED <<profiles, patients, rlsWounds, rlsTreatments>>
  /\ UNCHANGED <<dbvars, callvars, evars>>

NextRls ==
  \/ \E u \in Users, r \in Roles : AdminSetRole(u, r)
  \/ \E u \in Users, id \in Users, r \in Roles : RlsProfilesUpdate(u, id, r)
  \/ \E u \in Users, id \in PatientIds, prof \in Users, name \in PatientNames :
       RlsPatientsInsert(u, id, prof, name)
  \/ \E u \in Users, id \in PatientIds, prof \in Users, name \in PatientNames :
       RlsPatientsUpdate(u, id, prof, name)
  \/ \E u \in Users, id \in PatientIds : RlsPatientsSelect(u, id)
  \/ \E u \in Users, id \in RlsWoundIds, pid \in PatientIds, type \in WoundTypes :
       RlsWoundsInsert(u, id, pid, type)
  \/ \E u \in Users, id \in RlsWoundIds, pid \in PatientIds, type \in WoundTypes :
       RlsWoundsUpdate(u, id, pid, type)
  \/ \E u \in Users, id \in RlsWoundIds : RlsWoundsSelect(u, id)
  \/ \E u \in Users, id \in RlsTreatmentIds, wid \in RlsWoundIds :
       RlsTreatmentsInsert(u, id, wid)
  \/ \E u \in Users, id \in RlsTreatmentIds : RlsTreatmentsUpdate(u, id)
  \/ \E u \in Users, id \in RlsTreatmentIds : RlsTreatmentsSelect(u, id)

SpecRls == Init /\ [][NextRls]_vars

----------------------------------------------------------------------------
(* The rule table of the specification, read literally: "is not 'si'" is    *)
(* any value other than the string "si"; "present" is "not null".           *)

TableNoImprovement(w) ==
  \/ w.exudate_amount = "abundante"
  \/ (w.pain_scale # NullNum /\ w.pain_scale > 6)
  \/ (w.length_cm # NullNum /\ w.length_cm > EightCm)
  \/ (w.width_cm # NullNum /\ w.width_cm > EightCm)

TableShowsImprovement(w, n) ==
  /\ n >= 2
  /\ \/ w.exudate_amount \in {"escaso", "moderado"}
     \/ (w.pain_scale # NullNum /\ w.pain_scale <= 4)
     \/ (w.length_cm # NullNum /\ w.width_cm # NullNum
         /\ w.length_cm < FiveCm /\ w.width_cm < FiveCm)

TableRule1(w, n, d) == n = 0 /\ d < 1

TableRule2(w, n, d) == 1 <= n /\ n <= 3 /\ w.infection_signs # "si"

TableRule3(w, n, d) ==
  \/ w.infection_signs = "si"
  \/ (w.pain_scale # NullNum /\ w.pain_scale > 7)
  \/ (d > 14 /\ n > 5 /\ TableNoImprovement(w))

TableRule4(w, n, d) ==
  /\ n > 3
  /\ w.infection_signs # "si"
  /\ (w.pain_scale = NullNum \/ w.pain_scale <= 5)
  /\ TableShowsImprovement(w, n)

TableRule5(w, n, d) ==
  /\ w.length_cm # NullNum /\ w.width_cm # NullNum
  /\ w.length_cm < OneCm /\ w.width_cm < OneCm
  /\ w.exudate_amount = "escaso"
  /\ (w.pain_scale = NullNum \/ w.pain_scale <= 2)
  /\ w.infection_signs # "si"

TableStage(w, n, d) ==
  IF TableRule1(w, n, d) THEN "valoracion_inicial"
  ELSE IF TableRule2(w, n, d) THEN "tratamiento_en_curso"
  ELSE IF TableRule3(w, n, d) THEN "bajo_observacion"
  ELSE IF TableRule4(w, n, d) THEN "evolucion_favorable"
  ELSE IF TableRule5(w, n, d) THEN "alta_clinica"
  ELSE w.clinical_stage

(* The evaluation under SpecEval has been made.                             *)
Evaluated == eresult # "none"

ecount == Len(etreatments)

edays == (etoday - ewound.created_at) \div DayMinutes

(* A call of p has returned from evaluateStage.                             *)
Returned(p) == pc[p] = "idle" /\ ret[p] \notin {"none", "pending"}

----------------------------------------------------------------------------
(* Claims                                                                   *)

(* C1: for every wound snapshot, treatment count and instant, evaluateStage *)
(* returns the stage of the first rule of the specification's table whose   *)
(* condition holds, and the stored clinical_stage when none holds.          *)
C1_ReturnsTableStage ==
  Evaluated => eresult = TableStage(ewound, ecount, edays)

(* C2, as stated: a wound whose infection_signs is "si" evaluates to        *)
(* bajo_observacion for every treatment count and every age.                *)
C2_InfectedAlwaysObserved ==
  (Evaluated /\ ewound.infection_signs = "si") => eresult = "bajo_observacion"

(* C2, amended: a wound whose infection_signs is "si" evaluates to          *)
(* bajo_observacion unless it has no treatment and is less than a day old   *)
(* (rule 1), in which case it evaluates to valoracion_inicial.              *)
C2_InfectedObservedUnlessRule1 ==
  (Evaluated /\ ewound.infection_signs = "si") =>
     eresult = (IF ecount = 0 /\ edays < 1 THEN "valoracion_inicial"
                                           ELSE "bajo_observacion")

C2_Witness ==
  /\ Evaluated
  /\ ewound.infection_signs = "si"
  /\ ecount = 2
  /\ ewound.clinical_stage = "valoracion_inicial"
  /\ eresult = "bajo_observacion"

(* C3: every wound with 1 to 3 treatments whose infection_signs is not "si" *)
(* (null, false or any other string such as "no") evaluates to              *)
(* tratamiento_en_curso.                                                    *)
C3_InProgressUnlessSi ==
  (Evaluated /\ ecount >= 1 /\ ecount <= 3 /\ ewound.infection_signs # "si")
     => eresult = "tratamiento_en_curso"

(* C4, as stated: a wound with pain_scale above 7 evaluates to              *)
(* bajo_observacion whatever its treatment count.                           *)
C4_SeverePainAlwaysObserved ==
  (Evaluated /\ ewound.pain_scale # NullNum /\ ewound.pain_scale > 7)
     => eresult = "bajo_observacion"

(* C4, amended: a wound with pain_scale above 7 evaluates to                *)
(* bajo_observacion unless rule 1 (no treatment, less than a day old) or    *)
(* rule 2 (1 to 3 treatments, infection_signs not "si") comes first.        *)
C4_SeverePainObservedAfterRules1And2 ==
  (/\ Evaluated
   /\ ewound.pain_scale # NullNum /\ ewound.pain_scale > 7
   /\ ~TableRule1(ewound, ecount, edays)
   /\ ~TableRule2(ewound, ecount, edays))
     => eresult = "bajo_observacion"

C4_Witness ==
  /\ Evaluated
  /\ ewound.pain_scale = 8
  /\ ewound.infection_signs = Null
  /\ ecount = 4
  /\ ewound.clinical_stage = "tratamiento_en_curso"
  /\ eresult = "bajo_observacion"

(* C5: when listing the wound's treatments fails, evaluateStage aborts: it  *)
(* decides no stage from an empty list and issues no stage update.          *)
C5_ListFailureAborts ==
  \A p \in Procs :
    ~listOk[p] => /\ newStage[p] = "none"
                  /\ pc[p] # "ev_write"
                  /\ writes[p] = 0
                  /\ ret[p] \in {"pending", Null}

(* C6: each evaluateStage writes the stage it decided from its own earlier  *)
(* reads, whatever the row holds by then, so the later of two writes        *)
(* stands; C6_Witness is the state the claim says exists.                   *)
C6_LastWriteWins ==
  [][\A p \in Procs :
       (pc[p] = "ev_write" /\ pc'[p] = "idle" /\ writeOk'[p]
        /\ arg[p] \in DOMAIN wounds)
         => /\ newStage[p] = newStageOf(snap[p], tlist[p], now)
            /\ wounds'[arg[p]].clinical_stage = newStage[p]]_vars

(* Both treatments.create calls have returned their treatment, every read   *)
(* and write succeeded, and the stored stage is the one decided from the    *)
(* shorter treatment list, not the stage of the final data.                 *)
C6_Witness ==
  \E p \in Procs, q \in Procs :
    /\ p # q
    /\ Returned(p) /\ Returned(q)
    /\ op[p] = "create" /\ op[q] = "create"
    /\ cret[p] = ins[p] /\ cret[q] = ins[q]
    /\ arg[p] = arg[q]
    /\ writes[p] = 1 /\ writes[q] = 1
    /\ Len(tlist[p]) < Len(tlist[q])
    /\ tlist[q] = listByWound(treatments, arg[q])
    /\ wounds[arg[p]].clinical_stage = ret[p]
    /\ ret[p] # newStageOf(wounds[arg[p]], listByWound(treatments, arg[p]), now)
    /\ ret[q] = newStageOf(wounds[arg[p]], listByWound(treatments, arg[p]), now)

(* C7: an evaluateStage call issues exactly one stage update when the stage *)
(* it decided differs from the clinical_stage of the snapshot it read, and  *)
(* none when they are equal or when it returned null; never more than one,  *)
(* also when the update failed.                                             *)
C7_OneWriteIffStageDiffers ==
  \A p \in Procs :
    /\ writes[p] <= 1
    /\ pc[p] # "idle" => writes[p] = 0
    /\ Returned(p) =>
         writes[p] = (IF ret[p] # Null /\ newStage[p] # snap[p].clinical_stage
                        THEN 1 ELSE 0)
    /\ (Returned(p) /\ ret[p] # Null /\ listOk[p] /\ tlist[p] = << >>
        /\ daysSinceCreation(snap[p].created_at, now) < 1
        /\ snap[p].clinical_stage = "valoracion_inicial")
         => (ret[p] = "valoracion_inicial" /\ writes[p] = 0)

(* A call whose single stage update failed has returned.                    *)
C7_Witness ==
  \E p \in Procs :
    /\ Returned(p)
    /\ ~writeOk[p]
    /\ writes[p] = 1
    /\ newStage[p] # snap[p].clinical_stage

C9_CreateReturnsInsertedRow ==
  \A p \in Procs :
    (op[p] = "create" /\ ins[p] # NoTreatment) =>
       /\ \E i \in 1..Len(treatments) : treatments[i] = ins[p]
       /\ pc[p] = "idle" => cret[p] = ins[p]

(* treatments.create has returned its row although evaluateStage returned   *)
(* null.                                                                    *)
C9_Witness ==
  \E p \in Procs :
    /\ op[p] = "create" /\ pc[p] = "idle"
    /\ ins[p] # NoTreatment
    /\ ret[p] = Null
    /\ cret[p] = ins[p]

(* C10: when the stage update fails, evaluateStage returns the stage it     *)
(* decided, and, nothing else having touched the data during the call, the  *)
(* stored clinical_stage is still the one the call read.                    *)
C10_FailedWriteKeepsStageAndResult ==
  \A p \in Procs :
    (Returned(p) /\ ~writeOk[p]) =>
       /\ ret[p] = newStage[p]
       /\ ret[p] \in Stages
       /\ (clean[p] /\ arg[p] \in DOMAIN wounds)
            => wounds[arg[p]].clinical_stage = snap[p].clinical_stage

C10_Witness ==
  \E p \in Procs :
    /\ Returned(p) /\ ~writeOk[p] /\ clean[p]
    /\ ret[p] = "tratamiento_en_curso"
    /\ wounds[arg[p]].clinical_stage = "valoracion_inicial"

(* C11: when the wound does not exist or cannot be read, evaluateStage      *)
(* returns null: it asks for no treatment list, decides no stage, issues    *)
(* no stage update and leaves both tables as they are.                      *)
C11_NoWoundReturnsNullNoWrite ==
  [][\A p \in Procs :
       (/\ pc[p] = "ev_get" /\ pc'[p] # "ev_get"
        /\ (arg[p] \notin DOMAIN wounds \/ snap'[p] = NoWound))
         => /\ pc'[p] = "idle"
            /\ ret'[p] = Null
            /\ tlist'[p] = << >> /\ listOk'[p]
            /\ newStage'[p] = "none"
            /\ writes'[p] = 0
            /\ wounds' = wounds
            /\ treatments' = treatments]_vars

(* evaluateStage of a wound that does not exist has returned null.          *)
C11_Witness ==
  \E p \in Procs :
    /\ Returned(p) /\ op[p] = "evaluate"
    /\ arg[p] \notin DOMAIN wounds
    /\ snap[p] = NoWound
    /\ ret[p] = Null
    /\ writes[p] = 0

(* C12: every stored wound's clinical_stage is one of the five stages,      *)
(* after any wound creations, treatment creations, evaluateStage and        *)
(* updateStage calls, and a wound whose stage nothing has changed since     *)
(* its creation has valoracion_inicial.                                     *)
C12_StageAlwaysOneOfFive ==
  \A w \in DOMAIN wounds :
    /\ wounds[w].clinical_stage \in Stages
    /\ stageBy[w] = "create" => wounds[w].clinical_stage = "valoracion_inicial"

(* C13: a step of evaluateStage creates and deletes no wound and no         *)
(* treatment, and changes at most the clinical_stage of the wound it        *)
(* evaluates: that wound's other fields, every other wound and every        *)
(* treatment stay as they are.                                              *)
C13_EvaluateChangesOnlyStage ==
  [][\A p \in Procs :
       (pc[p] # "idle" /\ pc'[p] # pc[p])
         => /\ DOMAIN wounds' = DOMAIN wounds
            /\ treatments' = treatments
            /\ \A w \in DOMAIN wounds :
                 /\ w # arg[p] => wounds'[w] = wounds[w]
                 /\ wounds'[w] = [wounds[w] EXCEPT
                                    !.clinical_stage = wounds'[w].clinical_stage]]_vars

(* evaluateStage of w1 has stored a new stage while w2, which has           *)
(* treatments of its own, holds a different one.                            *)
C13_Witness ==
  \E p \in Procs :
    /\ Returned(p) /\ arg[p] = "w1"
    /\ writes[p] = 1 /\ writeOk[p]
    /\ ret[p] # snap[p].clinical_stage
    /\ {"w1", "w2"} \subseteq DOMAIN wounds
    /\ wounds["w1"].clinical_stage = ret[p]
    /\ wounds["w2"].clinical_stage # ret[p]
    /\ \E i \in 1..Len(treatments) : treatments[i].wound_id = "w2"
    /\ tlist[p] # << >>

(* C14: once a wound is created its clinical_stage changes only through     *)
(* evaluateStage or updateStage; wounds.update and the other operations of  *)
(* the wounds and treatments modules never change it.                       *)
C14_StageChangedOnlyByEvaluateOrOverride ==
  \A w \in DOMAIN wounds : stageBy[w] \in {"create", "evaluateStage", "updateStage"}

(* C15: in treatments.create, evaluateStage runs only once the insert has   *)
(* succeeded and the row is stored; it is never started when validation or  *)
(* the insert fails; and create returns its row only after evaluateStage    *)
(* has returned.                                                            *)
C15_EvaluateAfterInsertReturnAfterEvaluate ==
  \A p \in Procs :
    op[p] = "create" =>
      /\ pc[p] # "idle" =>
            /\ ins[p] # NoTreatment
            /\ \E i \in 1..Len(treatments) : treatments[i] = ins[p]
            /\ cret[p] = NoTreatment
      /\ ins[p] = NoTreatment =>
            /\ pc[p] = "idle"
            /\ ret[p] = "none"
            /\ cret[p] = NoTreatment
      /\ cret[p] # NoTreatment =>
            /\ pc[p] = "idle"
            /\ ret[p] \notin {"none", "pending"}
            /\ cret[p] = ins[p]

(* treatments.create has returned its row after an evaluateStage that       *)
(* listed the row and stored a new stage.                                   *)
C15_Witness ==
  \E p \in Procs :
    /\ op[p] = "create" /\ pc[p] = "idle"
    /\ cret[p] = ins[p] /\ ins[p] # NoTreatment
    /\ ret[p] \in Stages
    /\ writes[p] = 1 /\ writeOk[p]
    /\ \E i \in 1..Len(tlist[p]) : tlist[p][i] = ins[p]

(* C16: a wound with no treatment and less than one whole day since its     *)
(* creation evaluates to valoracion_inicial, whatever its clinical fields   *)
(* and its stored stage.                                                    *)
C16_Rule1GivesInitial ==
  (Evaluated /\ ecount = 0 /\ edays < 1) => eresult = "valoracion_inicial"

(* An infected, painful wound stored as alta_clinica, evaluated an hour     *)
(* before its created_at with no treatment.                                 *)
C16_Witness ==
  /\ Evaluated
  /\ ecount = 0 /\ edays < 0
  /\ ewound.infection_signs = "si" /\ ewound.pain_scale = 8
  /\ ewound.clinical_stage = "alta_clinica"
  /\ eresult = "valoracion_inicial"

(* The conditions of rule 3 and rule 5 never hold together, as the code     *)
(* tests them and as the rule table words them: rule 5 wants                *)
(* infection_signs other than "si", pain at most 2, exudate "escaso" and    *)
(* both measurements below 1 cm, and each disjunct of rule 3 contradicts    *)
(* one of these.                                                            *)
Rule3ExcludesRule5 ==
  /\ ~(Rule3(ewound, etreatments, edays) /\ Rule5(ewound, etreatments, edays))
  /\ ~(TableRule3(ewound, ecount, edays) /\ TableRule5(ewound, ecount, edays))

(* C18: when none of rules 1 to 4 of the table holds and the wound has both *)
(* measurements present and below 1 cm (0 included), exudate "escaso", pain *)
(* null or at most 2 and infection_signs other than "si", evaluateStage     *)
(* returns alta_clinica.                                                    *)
C18_SmallWoundDischarged ==
  (/\ Evaluated
   /\ ~TableRule1(ewound, ecount, edays) /\ ~TableRule2(ewound, ecount, edays)
   /\ ~TableRule3(ewound, ecount, edays) /\ ~TableRule4(ewound, ecount, edays)
   /\ ewound.length_cm # NullNum /\ ewound.length_cm >= 0 /\ ewound.length_cm < OneCm
   /\ ewound.width_cm # NullNum /\ ewound.width_cm >= 0 /\ ewound.width_cm < OneCm
   /\ ewound.exudate_amount = "escaso"
   /\ (ewound.pain_scale = NullNum \/ ewound.pain_scale <= 2)
   /\ ewound.infection_signs # "si")
     => eresult = "alta_clinica"

(* C19: when rules 1 to 3 of the table do not hold and the wound has more   *)
(* than 3 treatments, infection_signs other than "si" (absent or any other  *)
(* text), pain null or at most 5 and shows improvement, evaluateStage       *)
(* returns evolucion_favorable.                                             *)
C19_FavorableUnlessSi ==
  (/\ Evaluated
   /\ ~TableRule1(ewound, ecount, edays) /\ ~TableRule2(ewound, ecount, edays)
   /\ ~TableRule3(ewound, ecount, edays)
   /\ ecount > 3
   /\ ewound.infection_signs # "si"
   /\ (ewound.pain_scale = NullNum \/ ewound.pain_scale <= 5)
   /\ TableShowsImprovement(ewound, ecount))
     => eresult = "evolucion_favorable"

C22_PatientRoleWritesNothing ==
  (request.role = "patient" /\ request.ok /\ request.op \in {"insert", "update"})
     => /\ request.table = "profiles"
        /\ profiles[request.row] = "patient"

(* C23: a row that the policies let a professional read is a patient whose  *)
(* professional_id is that user's id, or a wound or a treatment of such a   *)
(* patient.                                                                 *)
C23_ProfessionalReadsOwnPatientsOnly ==
  (request.role = "professional" /\ request.ok /\ request.op = "select") =>
     LET patientOf ==
           IF request.table = "patients" THEN request.row
           ELSE IF request.table = "wounds" THEN rlsWounds[request.row].patient_id
           ELSE rlsWounds[rlsTreatments[request.row].wound_id].patient_id
     IN  patients[patientOf].professional_id = request.user

(* C24: _noImprovement answers true exactly when exudate_amount is          *)
(* "abundante", or pain_scale is above 6, or length_cm is present and above *)
(* 8 cm, or width_cm is present and above 8 cm, each measurement on its own. *)
C24_NoImprovementEachMeasurementAlone ==
  Evaluated => (noImprovement(ewound, etreatments) <=> TableNoImprovement(ewound))

(* C25: _showsImprovement answers false with fewer than 2 treatments; with  *)
(* 2 or more it answers true exactly when exudate_amount is "escaso" or     *)
(* "moderado", or pain_scale is present and at most 4 (0 included), or both *)
(* measurements are present and below 5 cm (0 included).                    *)
C25_ShowsImprovementAsWorded ==
  Evaluated =>
    (showsImprovement(ewound, etreatments) <=> TableShowsImprovement(ewound, ecount))

(* C26: daysSinceCreation is the floor of the elapsed time over 24 hours:   *)
(* 0 at 23 h 59 min (rule 1 can apply), 1 at 24 h, not above 14 at exactly  *)
(* 14 days, and negative, so still below 1, when created_at is later than   *)
(* the instant of evaluation.                                               *)
C26_DaysIsFloorOfElapsed ==
  LET elapsed == etoday - ewound.created_at
      d == daysSinceCreation(ewound.created_at, etoday) IN
  /\ d * DayMinutes <= elapsed /\ elapsed < (d + 1) * DayMinutes
  /\ elapsed = DayMinutes - 1 =>
        /\ d = 0
        /\ (Evaluated /\ ecount = 0) => eresult = "valoracion_inicial"
  /\ elapsed = DayMinutes => d = 1
  /\ elapsed = 14 * DayMinutes => ~(d > 14)
  /\ elapsed < 0 =>
        /\ d < 0 /\ d < 1
        /\ (Evaluated /\ ecount = 0) => eresult = "valoracion_inicial"

(* A wound 23 h 59 min old with no treatment, stored as bajo_observacion,   *)
(* has been evaluated to valoracion_inicial by rule 1.                      *)
C26_Witness ==
  /\ Evaluated
  /\ etoday - ewound.created_at = DayMinutes - 1
  /\ ecount = 0
  /\ ewound.clinical_stage = "bajo_observacion"
  /\ eresult = "valoracion_inicial"

(* C28: for a wound whose infection_signs is absent (null, false or empty)  *)
(* and that has at least one treatment, rule 5 never decides: when its      *)
(* condition holds, rule 2 or rule 4 has already given tratamiento_en_curso *)
(* or evolucion_favorable, and the result is alta_clinica only when that    *)
(* was the stored stage and no rule matched.                                *)
C28_Rule5ShadowedWhenInfectionAbsent ==
  (Evaluated /\ ewound.infection_signs \in {Null, "false", ""} /\ ecount >= 1) =>
     /\ (Rule5(ewound, etreatments, edays) \/ TableRule5(ewound, ecount, edays))
           => eresult = (IF ecount <= 3 THEN "tratamiento_en_curso"
                                       ELSE "evolucion_favorable")
     /\ eresult = "alta_clinica" =>
           /\ ewound.clinical_stage = "alta_clinica"
           /\ ecount > 3
           /\ ~Rule3(ewound, etreatments, edays)
           /\ ~Rule4(ewound, etreatments, edays)
           /\ ~Rule5(ewound, etreatments, edays)

(* A wound of 0.5 cm by 0.5 cm with scant exudate, no pain recorded and no  *)
(* infection, after its fourth treatment: rule 5's condition holds and the  *)
(* result is evolucion_favorable.                                           *)
C28_Witness ==
  /\ Evaluated
  /\ ewound.infection_signs = Null /\ ecount = 4
  /\ ewound.length_cm = 5 /\ ewound.width_cm = 5
  /\ ewound.exudate_amount = "escaso" /\ ewound.pain_scale = NullNum
  /\ Rule5(ewound, etreatments, edays)
  /\ ewound.clinical_stage = "tratamiento_en_curso"
  /\ eresult = "evolucion_favorable"

(* C27: when a treatments.create has returned with every read and write     *)
(* succeeding and nothing else touching the data meanwhile, the stored      *)
(* clinical_stage is the stage evaluateStage computed from the wound and    *)
(* from a treatment list that holds every treatment of the wound, the one   *)
(* just inserted included.                                                  *)
C27_StoredStageIsStageOfNewCount ==
  \A p \in Procs :
    (/\ op[p] = "create" /\ Returned(p)
     /\ ret[p] # Null /\ listOk[p] /\ writeOk[p]
     /\ clean[p])
      => /\ arg[p] \in DOMAIN wounds
         /\ \E i \in 1..Len(tlist[p]) : tlist[p][i] = ins[p]
         /\ Len(tlist[p]) =
              Cardinality({i \in 1..Len(treatments) : treatments[i].wound_id = arg[p]})
         /\ ret[p] = newStageOf(snap[p], tlist[p], now)
         /\ wounds[arg[p]] = [snap[p] EXCEPT !.clinical_stage = ret[p]]

(* The fourth treatments.create of a wound has returned and the stage went  *)
(* from tratamiento_en_curso to evolucion_favorable.                        *)
C27_Witness ==
  \E p \in Procs :
    /\ op[p] = "create" /\ Returned(p) /\ clean[p]
    /\ listOk[p] /\ writeOk[p] /\ writes[p] = 1
    /\ Len(tlist[p]) = 4
    /\ snap[p].clinical_stage = "tratamiento_en_curso"
    /\ ret[p] = "evolucion_favorable"
    /\ wounds[arg[p]].clinical_stage = "evolucion_favorable"

(* C29: a stage stored by updateStage is not protected from evaluateStage:  *)
(* whenever a call's stage update succeeds on a wound whose stage was last  *)
(* set by updateStage, before or after the call read the wound, the stored  *)
(* stage becomes the stage the call decided.                                *)
C29_OverrideReplacedByEvaluator ==
  [][\A p \in Procs :
       (/\ pc[p] = "ev_write" /\ pc'[p] = "idle" /\ writeOk'[p]
        /\ arg[p] \in DOMAIN wounds
        /\ stageBy[arg[p]] = "updateStage")
         => /\ wounds'[arg[p]].clinical_stage = newStage[p]
            /\ newStage[p] # snap[p].clinical_stage
            /\ newStage[p] # wounds[arg[p]].clinical_stage
                 => stageBy'[arg[p]] = "evaluateStage"]_vars

(* An updateStage came in between a call's read of the wound and its stage  *)
(* update, and the stored stage is the one the call decided.                *)
C29_Witness ==
  \E p \in Procs :
    /\ Returned(p) /\ overrode[p]
    /\ writes[p] = 1 /\ writeOk[p]
    /\ stageBy[arg[p]] = "evaluateStage"
    /\ wounds[arg[p]].clinical_stage = ret[p]
    /\ ret[p] # snap[p].clinical_stage

(* C30: whatever the outcome of the wound read, the treatment read and the  *)
(* stage update, evaluateStage returns one of the five stages or null.      *)
C30_ReturnsStageOrNull ==
  \A p \in Procs : Returned(p) => ret[p] \in Stages \cup {Null}

====
